---- MODULE Spec2Model ----
(***************************************************************************)
(* The TV signage view of src/app/routes/tv.tsx: the poll / clock          *)
(* lifecycle of the Tv component (Spec), and its pure derivations: the     *)
(* schedule classifier, the visible window and the active index            *)
(* (SpecSchedule) and the countdown formatter (SpecCountdown).             *)
(*                                                                         *)
(* JavaScript values are tagged records: null / undefined is Null, an      *)
(* array is Array(<<...>>), a Date is DateOf(t) with t its time value in   *)
(* milliseconds (NaN for an Invalid Date).  A raw timestamp string is      *)
(* modelled by the instant it denotes, a malformed string by BadStamp.     *)
(* Strings the formatter builds are sequences of one-character strings.    *)
(***************************************************************************)
EXTENDS Integers, Sequences, FiniteSets, TLC

VARIABLES
    phase,            \* "constructed" | "mounted" | "unmounted" (effects not run / run / cleaned up)
    data,             \* useState<TvData>, tv.tsx:187
    isLoading,        \* useState(true), tv.tsx:194
    now,              \* useNow's state, tv.tsx:75
    cancelled,        \* the poll effect's closure flag, tv.tsx:199
    clockInterval,    \* TRUE while useNow's setInterval is armed, tv.tsx:79
    pollInterval,     \* TRUE while the poll effect's setInterval is armed, tv.tsx:217
    issued,           \* number of load() calls made so far
    inflight,         \* the load() calls (by issue number) awaiting fetchTvData
    lastCompleted,    \* history: the load() that resumed last while the view was up (0: none)
    lastOutcomes,     \* history: how the five requests of that load() settled
    newestCompleted,  \* history: highest issue number among the load()s that resumed while up
    lateCompletions,  \* history: number of load()s that resumed after the teardown
    rendered,         \* TRUE once a render pass has computed the derived values
    timedSchedule,    \* useMemo, tv.tsx:227
    activeIndex,      \* useMemo, tv.tsx:228
    visibleItems,     \* ScheduleList, tv.tsx:307
    countdown         \* HackingCountdown's text, tv.tsx:293

lifecycleVars == <<phase, data, isLoading, now, cancelled, clockInterval, pollInterval,
                   issued, inflight, lastCompleted, lastOutcomes, newestCompleted,
                   lateCompletions>>
renderVars == <<rendered, timedSchedule, activeIndex, visibleItems, countdown>>
vars == <<lifecycleVars, renderVars>>

(***************************************************************************)
(* Bounds of the model.                                                    *)
(***************************************************************************)
MaxPolls == 3         \* load() calls issued in one run (the startup one included)
MaxClock == 1         \* clock readings 0..MaxClock in the lifecycle
MaxNow == 2           \* instants 0..MaxNow of the schedule inputs
MaxLen == 3           \* longest schedule list drawn as an input
MaxGrid == 4          \* half-second grid points among the countdown instants

(***************************************************************************)
(* Values.                                                                 *)
(***************************************************************************)
Null == [kind |-> "null"]
Array(s) == [kind |-> "array", items |-> s]
DateOf(t) == [kind |-> "date", time |-> t]
NaN == -1
BadStamp == -1

Resources == {"sponsors", "schedule", "wifi", "hackingtime", "announcement"}
Collections == {"sponsors", "schedule"}

\* The TvData field a resource is stored in (tv.tsx:97-103).
FieldOf(r) == IF r = "hackingtime" THEN "hacking" ELSE r

Sponsor1 == [id |-> 1, name |-> "acme", level |-> "root"]
Item1 == [id |-> 1, start |-> 1, end |-> 2]
Wifi1 == [id |-> 1, ssid |-> "hack", password |-> "udc"]
Hacking1 == [id |-> 1, start |-> 0, end |-> 2]
Announcement1 == [id |-> 1, content |-> "hi", visible |-> TRUE]

\* What a request for resource r can be fulfilled with, within the types of
\* tv.tsx:90-94: an array for a collection, a record or null for a singleton.  A
\* fulfilment with the default itself (empty list, null) is drawn for schedule and
\* wifi.
FetchedValues(r) ==
    CASE r = "sponsors" -> {Array(<<Sponsor1>>)}
      [] r = "schedule" -> {Array(<<>>), Array(<<Item1>>)}
      [] r = "wifi" -> {Null, Wifi1}
      [] r = "hackingtime" -> {Hacking1}
      [] r = "announcement" -> {Announcement1}

Rejected == [status |-> "rejected"]
Fulfilled(v) == [status |-> "fulfilled", value |-> v]

\* How directus.request(...) for resource r can settle.
RequestOutcomes(r) == {Rejected} \cup {Fulfilled(v) : v \in FetchedValues(r)}

\* How the five requests of one poll can settle.
PollOutcomes ==
    {[sponsors |-> a, schedule |-> b, wifi |-> c, hackingtime |-> d, announcement |-> e] :
        a \in RequestOutcomes("sponsors"), b \in RequestOutcomes("schedule"),
        c \in RequestOutcomes("wifi"), d \in RequestOutcomes("hackingtime"),
        e \in RequestOutcomes("announcement")}

NoOutcomes == [r \in Resources |-> Rejected]

EmptySnapshot ==
    [sponsors |-> Array(<<>>), schedule |-> Array(<<>>), wifi |-> Null, hacking |-> Null,
     announcement |-> Null]

(***************************************************************************)
(* fetchTvData, tv.tsx:88-104.                                             *)
(***************************************************************************)
\* Mutant of Catch: the handler is missing and the rejection passes through.
CatchNothing(outcome, d) == outcome

\* promise.catch(() => d): a rejection becomes a fulfilment with d.
Catch(outcome, d) == IF outcome.status = "rejected" THEN Fulfilled(d) ELSE outcome

\* The default the .catch handler of resource r substitutes (tv.tsx:90-94).
CatchDefault(r) == IF r \in Collections THEN Array(<<>>) ELSE Null

\* v ?? d
Coalesce(v, d) == IF v = Null THEN d ELSE v

\* Promise.all: rejected as soon as one member is, else fulfilled with all values.
PromiseAll(settled) ==
    IF \E r \in DOMAIN settled : settled[r].status = "rejected"
    THEN Rejected
    ELSE Fulfilled([r \in DOMAIN settled |-> settled[r].value])

\* await Promise.all([...]) and the object literal of tv.tsx:97-103: a rejection
\* of the awaited promise rejects fetchTvData()'s promise.
Aggregate(all) ==
    IF all.status = "rejected"
    THEN Rejected
    ELSE Fulfilled(
           [sponsors |-> Coalesce(all.value["sponsors"], Array(<<>>)),
            schedule |-> Coalesce(all.value["schedule"], Array(<<>>)),
            wifi |-> Coalesce(all.value["wifi"], Null),
            hacking |-> Coalesce(all.value["hackingtime"], Null),
            announcement |-> Coalesce(all.value["announcement"], Null)])

\* Mutant of fetchTvData: a poll whose five requests all reject rejects as a whole.
fetchTvDataTotalFailureRejects(o) ==
    IF \A r \in Resources : o[r].status = "rejected"
    THEN Rejected
    ELSE Aggregate(PromiseAll([r \in Resources |-> Catch(o[r], CatchDefault(r))]))

\* The settlement of fetchTvData()'s promise when the requests settle as o.
fetchTvData(o) ==
    Aggregate(PromiseAll([r \in Resources |-> Catch(o[r], CatchDefault(r))]))

(***************************************************************************)
(* The Tv component's lifecycle, tv.tsx:74-86 and 186-225.                 *)
(***************************************************************************)
Clock == 0..MaxClock

Init ==
    /\ phase = "constructed"
    /\ data = EmptySnapshot
    /\ isLoading = TRUE
    /\ now = Null
    /\ cancelled = FALSE
    /\ clockInterval = FALSE
    /\ pollInterval = FALSE
    /\ issued = 0
    /\ inflight = {}
    /\ lastCompleted = 0
    /\ lastOutcomes = NoOutcomes
    /\ newestCompleted = 0
    /\ lateCompletions = 0
    /\ rendered = FALSE
    /\ timedSchedule = <<>>
    /\ activeIndex = -1
    /\ visibleItems = <<>>
    /\ countdown = <<>>

\* The two effects run after the first commit: useNow's (tv.tsx:77-81) reads the
\* clock and arms the 1 s timer; the poll effect (tv.tsx:198-219) clears its flag,
\* calls load() once and arms the 5 s timer.
Mount ==
    /\ phase = "constructed"
    /\ phase' = "mounted"
    /\ \E t \in Clock : now' = DateOf(t)
    /\ clockInterval' = TRUE
    /\ cancelled' = FALSE
    /\ issued' = issued + 1
    /\ inflight' = inflight \cup {issued + 1}
    /\ pollInterval' = TRUE
    /\ UNCHANGED <<data, isLoading, lastCompleted, lastOutcomes, newestCompleted,
                   lateCompletions>>
    /\ UNCHANGED renderVars

\* The 1 s timer fires: setNow(new Date()), tv.tsx:79-81.
ClockTick ==
    /\ clockInterval
    /\ \E t \in Clock : t >= now.time /\ t <= now.time + 1 /\ now' = DateOf(t)
    /\ UNCHANGED <<phase, data, isLoading, cancelled, clockInterval, pollInterval,
                   issued, inflight, lastCompleted, lastOutcomes, newestCompleted,
                   lateCompletions>>
    /\ UNCHANGED renderVars

\* The 5 s timer fires: void load(), tv.tsx:217-219.  Nothing waits for the
\* previous load() to finish.
PollTick ==
    /\ pollInterval
    /\ issued < MaxPolls
    /\ issued' = issued + 1
    /\ inflight' = inflight \cup {issued + 1}
    /\ UNCHANGED <<phase, data, isLoading, now, cancelled, clockInterval, pollInterval,
                   lastCompleted, lastOutcomes, newestCompleted, lateCompletions>>
    /\ UNCHANGED renderVars

\* Mutant of MayUpdate: the cancelled flag is not consulted.
MayUpdateAlways(c) == TRUE

\* Whether load()'s continuation may touch the component state (tv.tsx:204, 210).
MayUpdate(c) == ~c

\* Mutant of LoadResult: the success branch leaves the loading flag alone.
LoadResultLoadingStuck(r, c, d, l) ==
    IF r.status = "fulfilled"
    THEN IF MayUpdate(c) THEN <<r.value, l>> ELSE <<d, l>>
    ELSE IF MayUpdate(c) THEN <<d, FALSE>> ELSE <<d, l>>

\* Mutant of LoadResult: setData keeps the previous value of every field the new
\* snapshot leaves at its default.
LoadResultMerging(r, c, d, l) ==
    IF r.status = "fulfilled"
    THEN IF MayUpdate(c)
         THEN <<[sponsors |-> IF r.value.sponsors = Array(<<>>) THEN d.sponsors
                              ELSE r.value.sponsors,
                 schedule |-> IF r.value.schedule = Array(<<>>) THEN d.schedule
                              ELSE r.value.schedule,
                 wifi |-> Coalesce(r.value.wifi, d.wifi),
                 hacking |-> Coalesce(r.value.hacking, d.hacking),
                 announcement |-> Coalesce(r.value.announcement, d.announcement)],
                FALSE>>
         ELSE <<d, l>>
    ELSE IF MayUpdate(c) THEN <<d, FALSE>> ELSE <<d, l>>

\* The state load() writes when fetchTvData() settles as r (tv.tsx:202-213):
\* <<data, isLoading>> after the try / catch.
LoadResult(r, c, d, l) ==
    IF r.status = "fulfilled"
    THEN IF MayUpdate(c) THEN <<r.value, FALSE>> ELSE <<d, l>>
    ELSE IF MayUpdate(c) THEN <<d, FALSE>> ELSE <<d, l>>

\* Mutant of LoadComplete: a result older than one already applied is dropped.
LoadCompleteNewestOnly(p, o) ==
    /\ p \in inflight
    /\ inflight' = inflight \ {p}
    /\ LET res == IF p > newestCompleted
                  THEN LoadResult(fetchTvData(o), cancelled, data, isLoading)
                  ELSE <<data, isLoading>>
       IN  /\ data' = res[1]
           /\ isLoading' = res[2]
    /\ IF phase = "mounted"
       THEN /\ lastCompleted' = p
            /\ lastOutcomes' = o
            /\ newestCompleted' = IF p > newestCompleted THEN p ELSE newestCompleted
            /\ UNCHANGED lateCompletions
       ELSE /\ lateCompletions' = lateCompletions + 1
            /\ UNCHANGED <<lastCompleted, lastOutcomes, newestCompleted>>
    /\ UNCHANGED <<phase, now, cancelled, clockInterval, pollInterval, issued>>
    /\ UNCHANGED renderVars

\* The five requests of load() number p have settled as o: fetchTvData() settles
\* and load() resumes after its await (tv.tsx:203-213).
LoadComplete(p, o) ==
    /\ p \in inflight
    /\ inflight' = inflight \ {p}
    /\ LET res == LoadResult(fetchTvData(o), cancelled, data, isLoading)
       IN  /\ data' = res[1]
           /\ isLoading' = res[2]
    /\ IF phase = "mounted"
       THEN /\ lastCompleted' = p
            /\ lastOutcomes' = o
            /\ newestCompleted' = IF p > newestCompleted THEN p ELSE newestCompleted
            /\ UNCHANGED lateCompletions
       ELSE /\ lateCompletions' = lateCompletions + 1
            /\ UNCHANGED <<lastCompleted, lastOutcomes, newestCompleted>>
    /\ UNCHANGED <<phase, now, cancelled, clockInterval, pollInterval, issued>>
    /\ UNCHANGED renderVars

\* The view is torn down: both effect cleanups run (tv.tsx:82 and 221-224).
Unmount ==
    /\ phase = "mounted"
    /\ phase' = "unmounted"
    /\ cancelled' = TRUE
    /\ pollInterval' = FALSE
    /\ clockInterval' = FALSE
    /\ UNCHANGED <<data, isLoading, now, issued, inflight, lastCompleted, lastOutcomes,
                   newestCompleted, lateCompletions>>
    /\ UNCHANGED renderVars

Next ==
    \/ Mount
    \/ ClockTick
    \/ PollTick
    \/ \E p \in 1..MaxPolls, o \in PollOutcomes : LoadComplete(p, o)
    \/ Unmount

Spec == Init /\ [][Next]_vars

\* The lifecycle under its scheduling: the effects of a committed component do
\* run (tv.tsx:198-219), and the requests of the startup load() do settle, so
\* the load() called at tv.tsx:216 resumes after its await.
\* The flag written at tv.tsx:205 and 211 does not depend on what was fetched,
\* so here a poll settles with every request rejected, or with the schedule and
\* the three single-valued resources fetched and wifi settling in any way.
LoadingOutcomes ==
    {NoOutcomes} \cup
    {o \in PollOutcomes : /\ o.sponsors # Rejected
                          /\ o.schedule = Fulfilled(Array(<<Item1>>))
                          /\ o.hackingtime # Rejected
                          /\ o.announcement # Rejected}

NextLive ==
    \/ Mount
    \/ ClockTick
    \/ PollTick
    \/ \E p \in 1..MaxPolls, o \in LoadingOutcomes : LoadComplete(p, o)
    \/ Unmount

SpecLive ==
    /\ Init
    /\ [][NextLive]_vars
    /\ WF_vars(Mount)
    /\ WF_vars(\E o \in LoadingOutcomes : LoadComplete(1, o))

(***************************************************************************)
(* Dates, tv.tsx:118-130 and 159-165.                                      *)
(***************************************************************************)
\* new Date(s) for a timestamp string s: an Invalid Date when s does not parse.
ParseDate(s) == DateOf(IF s = BadStamp THEN NaN ELSE s)

IsValid(d) == d.time # NaN

\* a < b, a >= b, a > b on Date objects: the time values are compared as numbers,
\* and every comparison with NaN is false.
DateLt(a, b) == IsValid(a) /\ IsValid(b) /\ a.time < b.time
DateGe(a, b) == IsValid(a) /\ IsValid(b) /\ a.time >= b.time
DateGt(a, b) == IsValid(a) /\ IsValid(b) /\ a.time > b.time

(***************************************************************************)
(* The schedule classifier, tv.tsx:156-184, and the visible window,        *)
(* tv.tsx:306-307.  Derived arrays are plain sequences; positions are      *)
(* counted from 0 as in the code, -1 meaning none.  Of a ScheduleItem the  *)
(* model keeps id, start and end: no derivation reads the other fields.    *)
(* Schedule timestamps are the backend's datetime fields (directus.ts:14)  *)
(* and parse; with an Invalid Date the comparator is inconsistent and the  *)
(* order Array.prototype.sort leaves is implementation-defined.            *)
(***************************************************************************)
\* Mutant of StatusOf: an item is past only strictly after its end.
StatusOfPastAfterEnd(startDate, endDate, n) ==
    IF n = Null THEN "upcoming"
    ELSE IF DateGt(n, endDate) THEN "past"
    ELSE IF DateGe(n, startDate) /\ DateLt(n, endDate) THEN "live"
    ELSE "upcoming"

\* The status of one item, tv.tsx:161-167.
StatusOf(startDate, endDate, n) ==
    IF n = Null THEN "upcoming"
    ELSE IF DateGe(n, endDate) THEN "past"
    ELSE IF DateGe(n, startDate) /\ DateLt(n, endDate) THEN "live"
    ELSE "upcoming"

\* The map callback, tv.tsx:158-170.
TimedItem(item, n) ==
    LET startDate == ParseDate(item.start)
        endDate == ParseDate(item.end)
    IN  [id |-> item.id, start |-> item.start, end |-> item.end,
         startDate |-> startDate, endDate |-> endDate,
         status |-> StatusOf(startDate, endDate, n)]

\* The sort comparator, tv.tsx:171; a NaN result counts as 0.
CompareStart(a, b) ==
    IF IsValid(a.startDate) /\ IsValid(b.startDate)
    THEN a.startDate.time - b.startDate.time
    ELSE 0

\* x put into the sorted sequence s, behind every element that does not compare
\* greater than it.
RECURSIVE InsertSorted(_, _)
InsertSorted(x, s) ==
    IF s = <<>> THEN <<x>>
    ELSE IF CompareStart(Head(s), x) > 0 THEN <<x>> \o s
    ELSE <<Head(s)>> \o InsertSorted(x, Tail(s))

\* Mutant of SortByStart: the sort is missing.
SortByStartOmitted(s) == s

\* Array.prototype.sort with CompareStart: a stable sort.
RECURSIVE SortByStart(_)
SortByStart(s) ==
    IF s = <<>> THEN <<>>
    ELSE InsertSorted(s[Len(s)], SortByStart(SubSeq(s, 1, Len(s) - 1)))

\* buildTimedSchedule, tv.tsx:156-172.
buildTimedSchedule(schedule, n) ==
    SortByStart([i \in 1..Len(schedule.items) |-> TimedItem(schedule.items[i], n)])

\* items.findIndex(p) for the positions of s that satisfy p, given as the set hits.
FindIndex(hits) == IF hits = {} THEN -1 ELSE (CHOOSE i \in hits : \A j \in hits : i <= j) - 1

\* Mutant of getActiveScheduleIndex: the fallback to the last item is missing.
getActiveScheduleIndexNoFallback(items, n) ==
    IF Len(items) = 0 \/ n = Null THEN -1
    ELSE LET liveIndex == FindIndex({i \in 1..Len(items) : items[i].status = "live"})
             upcomingIndex == FindIndex({i \in 1..Len(items) : DateGt(items[i].startDate, n)})
         IN  IF liveIndex # -1 THEN liveIndex ELSE upcomingIndex

\* getActiveScheduleIndex, tv.tsx:174-184.
getActiveScheduleIndex(items, n) ==
    IF Len(items) = 0 \/ n = Null THEN -1
    ELSE LET liveIndex == FindIndex({i \in 1..Len(items) : items[i].status = "live"})
             upcomingIndex == FindIndex({i \in 1..Len(items) : DateGt(items[i].startDate, n)})
         IN  IF liveIndex # -1 THEN liveIndex
             ELSE IF upcomingIndex # -1 THEN upcomingIndex
             ELSE Len(items) - 1

\* Mutant of VisibleItems: every past item is filtered out.
VisibleItemsNoPast(items) ==
    LET keep(item) == item.status # "past" IN SelectSeq(items, keep)

\* ScheduleList's visible items, tv.tsx:306-307.
VisibleItems(items) ==
    LET firstVisibleIndex == FindIndex({i \in 1..Len(items) : items[i].status # "past"})
    IN  IF firstVisibleIndex = -1 THEN <<>>
        ELSE SubSeq(items, firstVisibleIndex + 1, Len(items))

\* Mutant of ScrollTarget: the effect scrolls to the last rendered card.
ScrollTargetLast(visible) == IF Len(visible) = 0 THEN Null ELSE visible[Len(visible)]

\* The item whose card the auto-scroll effect scrolls to, tv.tsx:309-313: the one
\* rendered at itemRefs.current[0], and none when nothing is visible.
ScrollTarget(visible) == IF Len(visible) = 0 THEN Null ELSE visible[1]

(***************************************************************************)
(* SpecSchedule: buildTimedSchedule, getActiveScheduleIndex and            *)
(* ScheduleList's window applied to the arguments Tv passes (tv.tsx:227,   *)
(* 228, 242): data.schedule and now.  The arguments are drawn from every   *)
(* list of at most MaxLen items with start and end in 0..MaxNow, in any    *)
(* order, and every now in 0..MaxNow+1 or null; every list a poll can      *)
(* leave in data.schedule is one of the lists drawn.                       *)
(***************************************************************************)
Stamps == 0..MaxNow

\* The list of n items with the <<start, end>> pairs f; the item at input
\* position i carries id i.
ScheduleList(n, f) == [i \in 1..n |-> [id |-> i, start |-> f[i][1], end |-> f[i][2]]]

NowInputs == {Null} \cup {DateOf(t) : t \in 0..(MaxNow + 1)}

\* The values a render pass derives from the schedule snapshot and the clock
\* state n.
RenderSchedule(schedule, n) ==
    /\ timedSchedule' = buildTimedSchedule(schedule, n)
    /\ activeIndex' = getActiveScheduleIndex(timedSchedule', n)
    /\ visibleItems' = VisibleItems(timedSchedule')

InitSchedule ==
    /\ phase = "mounted"
    /\ \E n \in 0..MaxLen : \E f \in [1..n -> Stamps \X Stamps] :
          data = [EmptySnapshot EXCEPT !.schedule = Array(ScheduleList(n, f))]
    /\ now \in NowInputs
    /\ isLoading = FALSE
    /\ cancelled = FALSE
    /\ clockInterval = TRUE
    /\ pollInterval = TRUE
    /\ issued = 0
    /\ inflight = {}
    /\ lastCompleted = 0
    /\ lastOutcomes = NoOutcomes
    /\ newestCompleted = 0
    /\ lateCompletions = 0
    /\ rendered = FALSE
    /\ timedSchedule = <<>>
    /\ activeIndex = -1
    /\ visibleItems = <<>>
    /\ countdown = <<>>

\* Tv renders with the arguments as drawn.
FirstRenderSchedule ==
    /\ ~rendered
    /\ rendered' = TRUE
    /\ RenderSchedule(data.schedule, now)
    /\ UNCHANGED <<lifecycleVars, countdown>>

\* The clock ticks (tv.tsx:79-81) and Tv renders again.
TickRenderSchedule ==
    /\ rendered
    /\ now # Null
    /\ now.time <= MaxNow
    /\ now' = DateOf(now.time + 1)
    /\ RenderSchedule(data.schedule, now')
    /\ UNCHANGED <<phase, data, isLoading, cancelled, clockInterval, pollInterval,
                   issued, inflight, lastCompleted, lastOutcomes, newestCompleted,
                   lateCompletions, rendered, countdown>>

\* A poll is applied (tv.tsx:205) and Tv renders again; the poll returned the
\* same records in another order (the first one last).
PollRenderSchedule ==
    /\ rendered
    /\ Len(data.schedule.items) >= 2
    /\ data' = [data EXCEPT !.schedule =
                   Array(Tail(data.schedule.items) \o <<Head(data.schedule.items)>>)]
    /\ RenderSchedule(data'.schedule, now)
    /\ UNCHANGED <<phase, isLoading, now, cancelled, clockInterval, pollInterval,
                   issued, inflight, lastCompleted, lastOutcomes, newestCompleted,
                   lateCompletions, rendered, countdown>>

NextSchedule == FirstRenderSchedule \/ TickRenderSchedule \/ PollRenderSchedule

SpecSchedule == InitSchedule /\ [][NextSchedule]_vars

(***************************************************************************)
(* The countdown formatter, tv.tsx:115-146.                                *)
(***************************************************************************)
\* String(d) for a digit d.
DigitChar(d) ==
    CASE d = 0 -> "0" [] d = 1 -> "1" [] d = 2 -> "2" [] d = 3 -> "3" [] d = 4 -> "4"
      [] d = 5 -> "5" [] d = 6 -> "6" [] d = 7 -> "7" [] d = 8 -> "8" [] d = 9 -> "9"

\* String(n) for an integer n >= 0: its decimal digits.
RECURSIVE NumberToString(_)
NumberToString(n) ==
    IF n < 10 THEN <<DigitChar(n)>>
    ELSE NumberToString(n \div 10) \o <<DigitChar(n % 10)>>

\* str.padStart(len, ch): ch is put in front until the length is len; a longer
\* string is left as it is.
RECURSIVE PadStart(_, _, _)
PadStart(str, len, ch) == IF Len(str) >= len THEN str ELSE PadStart(<<ch>> \o str, len, ch)

\* The literals of tv.tsx:116, 122, 127 and 132.
Dashes == <<"-", "-", ":", "-", "-", ":", "-", "-">>
ThirtySixHours == <<"3", "6", ":", "0", "0", ":", "0", "0">>
ZeroHours == <<"0", "0", ":", "0", "0", ":", "0", "0">>

\* Math.max(0, Math.floor(diffMs / 1000)), tv.tsx:136.
TotalSeconds(diffMs) == IF diffMs \div 1000 > 0 THEN diffMs \div 1000 ELSE 0

\* Mutant of HoursOf: the hours wrap at 24.
HoursOfWrapped(totalSeconds) == (totalSeconds \div 3600) % 24

\* tv.tsx:137-139.
HoursOf(totalSeconds) == totalSeconds \div 3600
MinutesOf(totalSeconds) == (totalSeconds % 3600) \div 60
SecondsOf(totalSeconds) == totalSeconds % 60

\* formatCountdown, tv.tsx:115-146.
formatCountdown(hacking, n) ==
    IF hacking = Null \/ n = Null THEN Dashes
    ELSE LET start == ParseDate(hacking.start)
             end == ParseDate(hacking.end)
         IN  IF ~IsValid(start) \/ ~IsValid(end) THEN Dashes
             ELSE IF DateLt(n, start) THEN ThirtySixHours
             ELSE IF DateGe(n, end) THEN ZeroHours
             ELSE LET totalSeconds == TotalSeconds(end.time - n.time)
                      hh == PadStart(NumberToString(HoursOf(totalSeconds)), 2, "0")
                      mm == PadStart(NumberToString(MinutesOf(totalSeconds)), 2, "0")
                      ss == PadStart(NumberToString(SecondsOf(totalSeconds)), 2, "0")
                  IN  hh \o <<":">> \o mm \o <<":">> \o ss

(***************************************************************************)
(* SpecCountdown: formatCountdown applied to the arguments HackingCountdown*)
(* passes (tv.tsx:241, 293): data.hacking and now.  The window is null or  *)
(* has its start and end drawn from CountdownInstants and the malformed    *)
(* stamp; now is null or one of CountdownInstants.                         *)
(***************************************************************************)
\* Instants in milliseconds: a half-second grid from 0, then 1 min, 1 min 1.999 s,
\* 1 h, 1 h 1 min 1 s, 10 h, 11 h 2 min 3 s, 24 h, 46 h, 100 h and 111 h - 1 ms.
CountdownInstants ==
    {k * 500 : k \in 0..MaxGrid} \cup
    {60000, 61999, 3600000, 3661000, 36000000, 39723000, 86400000, 165600000,
     360000000, 399599999}

HackingInputs ==
    {Null} \cup {[id |-> 1, start |-> a, end |-> b] :
                    a \in CountdownInstants \cup {BadStamp},
                    b \in CountdownInstants \cup {BadStamp}}

InitCountdown ==
    /\ phase = "mounted"
    /\ \E h \in HackingInputs : data = [EmptySnapshot EXCEPT !.hacking = h]
    /\ now \in {Null} \cup {DateOf(t) : t \in CountdownInstants}
    /\ isLoading = FALSE
    /\ cancelled = FALSE
    /\ clockInterval = TRUE
    /\ pollInterval = TRUE
    /\ issued = 0
    /\ inflight = {}
    /\ lastCompleted = 0
    /\ lastOutcomes = NoOutcomes
    /\ newestCompleted = 0
    /\ lateCompletions = 0
    /\ rendered = FALSE
    /\ timedSchedule = <<>>
    /\ activeIndex = -1
    /\ visibleItems = <<>>
    /\ countdown = <<>>

\* HackingCountdown renders with the arguments as drawn.
FirstRenderCountdown ==
    /\ ~rendered
    /\ rendered' = TRUE
    /\ countdown' = formatCountdown(data.hacking, now)
    /\ UNCHANGED <<lifecycleVars, timedSchedule, activeIndex, visibleItems>>

\* The clock ticks (tv.tsx:79-81), here to the next of the instants, and
\* HackingCountdown renders again.
TickRenderCountdown ==
    /\ rendered
    /\ now # Null
    /\ \E t \in CountdownInstants :
          /\ t > now.time
          /\ \A u \in CountdownInstants : u > now.time => t <= u
          /\ now' = DateOf(t)
    /\ countdown' = formatCountdown(data.hacking, now')
    /\ UNCHANGED <<phase, data, isLoading, cancelled, clockInterval, pollInterval,
                   issued, inflight, lastCompleted, lastOutcomes, newestCompleted,
                   lateCompletions, rendered, timedSchedule, activeIndex, visibleItems>>

NextCountdown == FirstRenderCountdown \/ TickRenderCountdown

SpecCountdown == InitCountdown /\ [][NextCountdown]_vars

(***************************************************************************)
(* Properties of the poll lifecycle (checked under Spec).                  *)
(***************************************************************************)
\* The safe default of a resource: the empty list for a collection, null for a
\* singleton.
DefaultOf(r) == IF r \in Collections THEN Array(<<>>) ELSE Null

\* What resource r contributes to the snapshot of a poll that settled as o.
Contribution(o, r) == IF o[r].status = "rejected" THEN DefaultOf(r) ELSE o[r].value

\* The complete five-field snapshot of a poll that settled as o.
SnapshotOf(o) ==
    [sponsors |-> Contribution(o, "sponsors"),
     schedule |-> Contribution(o, "schedule"),
     wifi |-> Contribution(o, "wifi"),
     hacking |-> Contribution(o, "hackingtime"),
     announcement |-> Contribution(o, "announcement")]

AllRejected(o) == \A r \in Resources : o[r].status = "rejected"

\* A step in which a load() resumes while the view is up.
CompletesWhileUp == phase = "mounted" /\ issued' = issued /\ inflight' # inflight

\* C1: whichever of the five requests of a poll reject, the poll completes and the
\* snapshot it leaves holds, per resource, the safe default (empty list, null) where
\* the request rejected and exactly the fetched value where it succeeded.
PerResourceFaultTolerance ==
    lastCompleted # 0 =>
        \A r \in Resources :
            data[FieldOf(r)] =
                IF lastOutcomes[r].status = "rejected"
                THEN (IF r \in {"sponsors", "schedule"} THEN Array(<<>>) ELSE Null)
                ELSE lastOutcomes[r].value

\* C1 witness: wifi rejected, the other four fulfilled, and the snapshot holds null
\* for wifi and the four fetched values.
WifiRejectedOthersKept ==
    /\ lastCompleted # 0
    /\ lastOutcomes["wifi"].status = "rejected"
    /\ \A r \in Resources \ {"wifi"} : lastOutcomes[r].status = "fulfilled"
    /\ data.wifi = Null
    /\ data.sponsors = Array(<<Sponsor1>>)
    /\ data.schedule = Array(<<Item1>>)
    /\ data.hacking = Hacking1
    /\ data.announcement = Announcement1

\* C2 as stated: a poll whose five requests all reject leaves the snapshot as it
\* was before the poll completed.
TotalFailureKeepsSnapshot ==
    [][(CompletesWhileUp /\ AllRejected(lastOutcomes')) => data' = data]_vars

\* C2 as amended: a poll whose five requests all reject completes normally and,
\* with the view up, replaces the snapshot by the all-default one (empty lists,
\* null singletons) and resolves the loading flag.
TotalFailureYieldsDefaults ==
    (lastCompleted # 0 /\ AllRejected(lastOutcomes)) =>
        (data = EmptySnapshot /\ isLoading = FALSE)

\* C2 witness: at least two polls have completed with the view up, the last of
\* them with all five requests rejected, and the all-default snapshot is shown.
TotalFailureAfterEarlierPoll ==
    /\ phase = "mounted"
    /\ issued - Cardinality(inflight) >= 2
    /\ lastCompleted # 0
    /\ AllRejected(lastOutcomes)
    /\ data = EmptySnapshot

\* C3: the snapshot is the initial empty one or the complete result of one single
\* poll, and it only ever changes by being replaced whole by the result of the
\* poll that completes in that step.
AtomicSnapshotReplacement ==
    /\ [](data = EmptySnapshot \/ (lastCompleted # 0 /\ data = SnapshotOf(lastOutcomes)))
    /\ [][data' # data => (CompletesWhileUp /\ data' = SnapshotOf(lastOutcomes'))]_vars

\* C3 witness: two polls overlapped, both completed, and the snapshot is the whole
\* result of the last one, which left some field at its default and filled another.
OverlappedPollsWholeSnapshot ==
    /\ newestCompleted >= 2
    /\ issued - Cardinality(inflight) >= 2
    /\ data = SnapshotOf(lastOutcomes)
    /\ data.sponsors = Array(<<>>)
    /\ data.wifi = Wifi1

\* C4: once the view is torn down both timers are cancelled, so no tick and no
\* poll is issued, and a load() that resumes afterwards changes neither the
\* snapshot nor the loading flag.
TeardownSuppressesUpdates ==
    /\ [](phase = "unmounted" => (cancelled /\ ~clockInterval /\ ~pollInterval))
    /\ [][phase = "unmounted" =>
            /\ data' = data
            /\ isLoading' = isLoading
            /\ now' = now
            /\ issued' = issued
            /\ inflight' \subseteq inflight]_vars

\* C4 witness: a load() that was in flight at teardown has resumed after it,
\* while the loading flag was still up.
LateCompletionIgnored ==
    /\ phase = "unmounted"
    /\ lateCompletions > 0
    /\ isLoading = TRUE
    /\ data = EmptySnapshot

\* C5: the snapshot shown is always that of the load() that resumed last with the
\* view up, whether or not a later-issued load() had resumed before it.
LastWriteWins == lastCompleted # 0 => data = SnapshotOf(lastOutcomes)

\* C5 witness: two polls were in flight at once, the later-issued one completed
\* first, and the earlier one's (stale) result is what is shown.
StaleResultShown ==
    /\ phase = "mounted"
    /\ lastCompleted # 0
    /\ lastCompleted < newestCompleted
    /\ data = SnapshotOf(lastOutcomes)
    /\ data # EmptySnapshot

(***************************************************************************)
(* Properties of the schedule derivations (checked under SpecSchedule).    *)
(***************************************************************************)
\* The schedule list the derived values were computed from.
ScheduleArg == data.schedule.items

\* The status the classification rule gives (start, end, now), on instants.
RuleStatus(start, end, n) ==
    IF n = Null THEN "upcoming"
    ELSE IF n.time >= end THEN "past"
    ELSE IF start <= n.time THEN "live"
    ELSE "upcoming"

\* C6: the status of every classified item is the one the rule gives for its own
\* (start, end) and now: past when now >= end, else live when start <= now < end,
\* else upcoming, and upcoming for every item when now is unavailable; the other
\* items and the input order play no part.
StatusIsRuleOfStartEndNow ==
    rendered =>
        \A i \in 1..Len(timedSchedule) :
            timedSchedule[i].status =
                RuleStatus(timedSchedule[i].start, timedSchedule[i].end, now)

\* C6 witness: one classified list holds a past, a live and an upcoming item.
AllThreeStatuses ==
    /\ rendered
    /\ now # Null
    /\ \A st \in {"past", "live", "upcoming"} :
          \E i \in 1..Len(timedSchedule) : timedSchedule[i].status = st

\* C7: the classifier output holds exactly the input items, each once, in
\* ascending order of parsed start.
SortedPermutationOfInput ==
    rendered =>
        /\ Len(timedSchedule) = Len(ScheduleArg)
        /\ \A k \in 1..Len(ScheduleArg) :
              LET same == {i \in 1..Len(timedSchedule) :
                              timedSchedule[i].id = ScheduleArg[k].id}
              IN  /\ Cardinality(same) = 1
                  /\ \A i \in same :
                        /\ timedSchedule[i].start = ScheduleArg[k].start
                        /\ timedSchedule[i].end = ScheduleArg[k].end
        /\ \A i, j \in 1..Len(timedSchedule) :
              i < j => timedSchedule[i].startDate.time <= timedSchedule[j].startDate.time

\* C7 witness: a three-item input that arrived in descending order of start has
\* been classified after a clock tick.
UnsortedInputSorted ==
    /\ rendered
    /\ now # Null
    /\ now.time > 0
    /\ Len(ScheduleArg) = 3
    /\ ScheduleArg[1].start > ScheduleArg[2].start
    /\ ScheduleArg[2].start > ScheduleArg[3].start
    /\ timedSchedule[1].id = ScheduleArg[3].id
    /\ timedSchedule[3].id = ScheduleArg[1].id

\* C8: the visible items are the classified list without its leading run of past
\* items and nothing else is dropped: they are the suffix that starts at the first
\* item that is not past, and empty when there is no such item.
VisibleIsSuffixFromFirstNonPast ==
    rendered =>
        \E k \in 0..Len(timedSchedule) :
            /\ \A i \in 1..k : timedSchedule[i].status = "past"
            /\ k < Len(timedSchedule) => timedSchedule[k + 1].status # "past"
            /\ Len(visibleItems) = Len(timedSchedule) - k
            /\ \A i \in 1..Len(visibleItems) : visibleItems[i] = timedSchedule[k + i]

\* C8 witness: a leading past item was dropped and a past item behind a live one
\* stays visible.
PastBehindLiveStaysVisible ==
    /\ rendered
    /\ Len(timedSchedule) = 3
    /\ timedSchedule[1].status = "past"
    /\ Len(visibleItems) = 2
    /\ visibleItems[1].status = "live"
    /\ visibleItems[2].status = "past"

\* C10: the active index is -1 exactly when the list is empty or now is
\* unavailable; otherwise it is the position of the first live item if there is
\* one, else of the first item that starts after now if there is one, else the
\* last position.
ActiveIndexSelection ==
    rendered =>
        LET n == Len(timedSchedule)
            live == {i \in 1..n : timedSchedule[i].status = "live"}
            later == {i \in 1..n : now # Null /\ timedSchedule[i].start > now.time}
            a == activeIndex + 1
        IN  /\ (activeIndex = -1) <=> (n = 0 \/ now = Null)
            /\ activeIndex # -1 =>
                  /\ a \in 1..n
                  /\ live # {} => (a \in live /\ \A i \in live : a <= i)
                  /\ (live = {} /\ later # {}) => (a \in later /\ \A i \in later : a <= i)
                  /\ (live = {} /\ later = {}) => a = n

\* C10 witness: every item of a three-item list is past and the active index is
\* the last position.
AllPastActiveIsLast ==
    /\ rendered
    /\ now # Null
    /\ Len(timedSchedule) = 3
    /\ \A i \in 1..3 : timedSchedule[i].status = "past"
    /\ activeIndex = 2

(***************************************************************************)
(* Properties of the countdown formatter (checked under SpecCountdown).    *)
(***************************************************************************)
DecimalDigits == <<"0", "1", "2", "3", "4", "5", "6", "7", "8", "9">>
IsDigit(c) == \E i \in 1..10 : DecimalDigits[i] = c
DigitValue(c) == (CHOOSE i \in 1..10 : DecimalDigits[i] = c) - 1

\* The number a sequence of decimal digits writes.
RECURSIVE DecimalValue(_)
DecimalValue(str) ==
    IF str = <<>> THEN 0
    ELSE 10 * DecimalValue(SubSeq(str, 1, Len(str) - 1)) + DigitValue(str[Len(str)])

\* Whether text writes total seconds as HH:MM:SS: two-digit minutes and seconds in
\* 0..59, hours of at least two digits with no padding beyond two, not wrapped.
WritesAsClock(text, total) ==
    LET n == Len(text)
        hh == SubSeq(text, 1, n - 6)
        mm == SubSeq(text, n - 4, n - 3)
        ss == SubSeq(text, n - 1, n)
    IN  /\ n >= 8
        /\ text[n - 5] = ":"
        /\ text[n - 2] = ":"
        /\ \A i \in (1..n) \ {n - 5, n - 2} : IsDigit(text[i])
        /\ Len(hh) > 2 => hh[1] # "0"
        /\ DecimalValue(mm) \in 0..59
        /\ DecimalValue(ss) \in 0..59
        /\ DecimalValue(hh) * 3600 + DecimalValue(mm) * 60 + DecimalValue(ss) = total

\* C9: the countdown text follows the four rules in priority order: "--:--:--"
\* when the window or now is missing or an endpoint does not parse; else
\* "36:00:00" when now < start, whatever the window; else "00:00:00" when
\* now >= end; else floor((end - now) / 1000) seconds written as HH:MM:SS, zero
\* padded, minutes and seconds below 60, hours not wrapped, never negative.
CountdownRules ==
    rendered =>
        LET h == data.hacking IN
        IF h = Null \/ now = Null THEN countdown = Dashes
        ELSE IF h.start = BadStamp \/ h.end = BadStamp THEN countdown = Dashes
        ELSE IF now.time < h.start THEN countdown = <<"3", "6", ":", "0", "0", ":", "0", "0">>
        ELSE IF now.time >= h.end THEN countdown = <<"0", "0", ":", "0", "0", ":", "0", "0">>
        ELSE /\ (h.end - now.time) \div 1000 >= 0
             /\ WritesAsClock(countdown, (h.end - now.time) \div 1000)

\* C9 witness: the window runs from 10:00:00 for 36 hours, now is 1 h 2 min 3 s
\* after its start, and the text is "34:57:57".
MidpointExample ==
    /\ rendered
    /\ data.hacking # Null
    /\ now # Null
    /\ data.hacking.start = 36000000
    /\ data.hacking.end = 36000000 + 36 * 3600000
    /\ now.time = 36000000 + 3723000
    /\ countdown = <<"3", "4", ":", "5", "7", ":", "5", "7">>

(***************************************************************************)
(* The auto-scroll anchor and the active index (checked under SpecSchedule).*)
(***************************************************************************)
\* The item at the active index.
ActiveItem == timedSchedule[activeIndex + 1]

\* C11 as stated: whenever the schedule is not empty and now is available, the
\* item that anchors auto-scroll is the item at the active index.
AnchorIsActiveItem ==
    (rendered /\ now # Null /\ Len(timedSchedule) > 0) =>
        ScrollTarget(visibleItems) = ActiveItem

\* C11 as amended: whenever the schedule is not empty and now is available, the
\* anchor is the item at the active index exactly when that item is not past;
\* when every item is past nothing is visible and there is no anchor, while the
\* active index still names an item.
AnchorIsActiveItemUnlessPast ==
    (rendered /\ now # Null /\ Len(timedSchedule) > 0) =>
        /\ (ScrollTarget(visibleItems) = ActiveItem) <=> (ActiveItem.status # "past")
        /\ (\A i \in 1..Len(timedSchedule) : timedSchedule[i].status = "past") =>
              /\ ScrollTarget(visibleItems) = Null
              /\ activeIndex \in 0..(Len(timedSchedule) - 1)

\* C11 witness: behind a dropped past item stands the next upcoming item, no item
\* is live, and the anchor is that item, the one at the active index.
AnchorOnNextUpcoming ==
    /\ rendered
    /\ now # Null
    /\ Len(timedSchedule) = 3
    /\ timedSchedule[1].status = "past"
    /\ activeIndex = 1
    /\ ActiveItem.status = "upcoming"
    /\ ScrollTarget(visibleItems) = timedSchedule[2]

(***************************************************************************)
(* The loading flag (checked under SpecLive).                              *)
(***************************************************************************)
\* The startup load() has settled and the view is still up.
StartupSettledWhileUp == phase = "mounted" /\ issued >= 1 /\ 1 \notin inflight

\* The flag is true exactly as long as no load() has finished while the view
\* was up; once the startup load() has settled before teardown it is false; and
\* a failure caught by load() in a view that is up would clear it as well.
LoadingUntilFirstCompletion ==
    /\ (isLoading = TRUE) <=> (lastCompleted = 0)
    /\ StartupSettledWhileUp => isLoading = FALSE
    /\ phase = "mounted" =>
          LoadResult(Rejected, cancelled, data, isLoading) = <<data, FALSE>>

\* C12: the loading flag is true from construction until the first load() that
\* finishes while the view is up; every load() finishing while the view is up
\* leaves it false; once false it is never true again, whatever the later ticks,
\* polls and overlapping completions; and unless the view is torn down first,
\* the flag does become false.
LoadingFlagLifecycle ==
    /\ []LoadingUntilFirstCompletion
    /\ [][CompletesWhileUp => isLoading' = FALSE]_vars
    /\ [][isLoading = FALSE => isLoading' = FALSE]_vars
    /\ <>(phase = "unmounted" \/ isLoading = FALSE)

\* C12 witness: the flag is down in a view that is up, after a load() overtaken
\* by a later one has finished, with another load() still in flight.
LoadingDownAfterOverlap ==
    /\ phase = "mounted"
    /\ isLoading = FALSE
    /\ lastCompleted # 0
    /\ lastCompleted < newestCompleted
    /\ inflight # {}

====
